---- MODULE Spec2Model ----
(***************************************************************************)
(* A model of cryptofeed/rest/gdax.py: the Gdax REST client.  One public   *)
(* operation runs at a time (the client is synchronous); it builds an      *)
(* endpoint, signs it, and hands the request to _make_request, whose every *)
(* HTTP attempt is answered by the exchange (the environment).  Python's   *)
(* name resolution is modelled explicitly, because several paths of the    *)
(* code read names that are bound nowhere.                                 *)
(***************************************************************************)
EXTENDS Integers, Sequences, FiniteSets, TLC

\* ---------------------------------------------------------------- bounds
MaxClock == 1      \* wall clock values 0..MaxClock
MaxRetry == 1      \* retry budgets a caller may pass: None, 0..MaxRetry
MaxWait == 1       \* retry waits a caller may pass: 0..MaxWait
MaxTime == 2       \* date-range bounds a caller may pass: None, 1..MaxTime
MaxRecords == 2    \* records in a list answered by the exchange
MaxTrades == 2     \* trades handed to execute_trades
MaxStatuses == 2   \* status values in an order-listing body
MaxAttempts == 3   \* HTTP attempts of one public operation

\* ---------------------------------------------------------------- Python values
None == -1         \* Python's None, where the other values are integers
Unbound == -2      \* a name with no binding in the scope that reads it
NoneStr == "None"  \* Python's None, where the other values are strings
NoDict == <<>>     \* the empty dict / the empty string / the empty list

Ok(v) == [error |-> "", value |-> v]
Raise(e) == [error |-> e, value |-> NoDict]

\* Names bound at module level (imports and assignments of lines 1-16).
ModuleGlobals ==
    {"time", "json", "hashlib", "hmac", "calendar", "requests", "base64",
     "sleep", "dt", "pd", "API", "GDAX", "get_logger",
     "pair_std_to_exchange", "pair_exchange_to_std", "REQUEST_LIMIT", "LOG",
     "Gdax"}

\* A name read in a function resolves to a local, else to a module global.
NameBound(name, locals) == name \in locals \/ name \in ModuleGlobals

ID == "GDAX"
api == "https://api.gdax.com"
sandbox_api == "https://api-public.sandbox.gdax.com"

\* ---------------------------------------------------------------- inputs
Symbols == {"BTC-USD"}
OrderIds == {"o-1"}
StatusValues == {"open", "pending"}
Times == 1..MaxTime

\* pair_std_to_exchange(symbol, GDAX): GDAX's native pairs are BASE-QUOTE.
pair_std_to_exchange(symbol) == CASE symbol = "BTC-USD" -> "BTC-USD"
                                  [] OTHER -> symbol

\* A created_at string: a date written in a format.
IsoFrac == "%Y-%m-%dT%H:%M:%S.%fZ"
CreatedAt(t) == [date |-> t, fmt |-> IsoFrac]

\* datetime.strptime(s, fmt): the date, when s is written in fmt.
Strptime(s, fmt) == IF s.fmt = fmt THEN Ok(s.date) ELSE Raise("ValueError")

\* Raw records the exchange answers with.
FillA == [trade_id |-> "74", product_id |-> "BTC-USD", price |-> "10.00",
          size |-> "0.01", order_id |-> "d50ec984", created_at |-> CreatedAt(1),
          side |-> "buy"]
FillB == [trade_id |-> "75", product_id |-> "BTC-USD", price |-> "11.00",
          size |-> "0.02", order_id |-> "a1b2c3d4", created_at |-> CreatedAt(3),
          side |-> "sell"]
OrderA == [id |-> "68e6a28f", type |-> "limit", product_id |-> "BTC-USD",
           price |-> "0.100", size |-> "0.01", side |-> "buy",
           created_at |-> CreatedAt(2), fill_fees |-> "0.0", filled_size |-> "0.0",
           executed_value |-> "0.0", status |-> "pending",
           settled |-> "false"]
RawRecords == {FillA, FillB, OrderA}

RECURSIVE SeqsUpTo(_, _)
SeqsUpTo(S, n) ==
    IF n = 0 THEN {<<>>}
    ELSE LET shorter == SeqsUpTo(S, n - 1)
         IN shorter \cup {Append(s, x) : s \in {t \in shorter : Len(t) = n - 1}, x \in S}

\* The JSON bodies the exchange may answer an operation with: a list of
\* records to the listing endpoints, one record to the others.
Payloads(op) ==
    CASE op = "fills" -> SeqsUpTo({FillA, FillB}, MaxRecords)
      [] op = "get_orders" -> SeqsUpTo({OrderA, FillA}, MaxRecords)
      [] OTHER -> {FillA, OrderA}

\* Trades handed to execute_trades: dicts, kept as ordered (key, value) pairs.
TradeBuy == << <<"size", "0.01">>, <<"price", "0.100">>, <<"side", "buy">>,
               <<"product_id", "BTC-USD">> >>
TradeSell == << <<"size", "0.02">>, <<"price", "0.200">>, <<"side", "sell">>,
                <<"product_id", "BTC-USD">> >>
Trades == {TradeBuy, TradeSell}

\* Order-listing bodies: a dict with an optional 'status' list and an
\* optional 'product_id'.
OrderBodies ==
    {NoDict}
    \cup {("status" :> s) : s \in SeqsUpTo(StatusValues, MaxStatuses)}
    \cup {("product_id" :> p) : p \in Symbols}
    \cup {("status" :> s) @@ ("product_id" :> p) :
            s \in SeqsUpTo(StatusValues, MaxStatuses), p \in Symbols}

StatusCodes == {200, 201, 304, 400, 404, 500}
\* The exceptions of requests.get/post/delete that _make_request names.
TransportErrors == {"TimeoutError", "ConnectionError"}
Latencies == {0, 1}   \* clock ticks an HTTP attempt may take

\* ---------------------------------------------------------------- state
VARIABLES
    sandbox,     \* self.sandbox, fixed at construction
    clock,       \* time.time()
    pc,          \* "idle" | "request" (inside _make_request) | "done"
    call,        \* the public operation running, with its arguments
    req,         \* the arguments of the running _make_request call
    retry,       \* what the name retry is bound to inside _make_request
    retry_wait,  \* what the name retry_wait is bound to inside _make_request
    wire,        \* history: the HTTP attempts of this operation, with replies
    sleepLog,    \* history: the durations of the sleep() calls of this operation
    sigCount,    \* history: the number of _generate_signature calls
    idx,         \* execute_trades: index of the trade being submitted
    responses,   \* execute_trades: the list responses
    outcome,     \* "running" | "returned" | "raised"
    error,       \* the exception raised to the caller, "" if none
    result       \* the value returned to the caller

vars == <<sandbox, clock, pc, call, req, retry, retry_wait, wire, sleepLog,
          sigCount, idx, responses, outcome, error, result>>

NoCall == [op |-> "none", symbol |-> NoneStr, start |-> None, end |-> None,
           retry |-> None, retry_wait |-> 0, body |-> NoDict,
           order_id |-> NoneStr, trades |-> <<>>]
NoReq == [method |-> "", endpoint |-> <<>>, header |-> NoDict, body |-> NoDict]

Init ==
    /\ sandbox \in BOOLEAN
    /\ clock = 0
    /\ pc = "idle"
    /\ call = NoCall
    /\ req = NoReq
    /\ retry = Unbound
    /\ retry_wait = Unbound
    /\ wire = <<>>
    /\ sleepLog = <<>>
    /\ sigCount = 0
    /\ idx = 0
    /\ responses = <<>>
    /\ outcome = "running"
    /\ error = ""
    /\ result = NoDict


\* ---------------------------------------------------------------- Signer
\* ''.join([timestamp, method, endpoint, body]): one string, no separators.
Message(timestamp, method, endpoint, body) ==
    <<timestamp, method>> \o endpoint \o body

\* hmac.new(key, message, sha256), base64-encoded: a function of key and message.
Hmac(key, message) == [key |-> key, message |-> message]

\* _generate_signature at wall-clock time now.  sigId and sleepsAtSign are
\* history fields (which call produced the header, and how many sleep()
\* calls had happened by then); the rest is the header sent to the exchange.
_generate_signature(now, n, slept, endpoint, method, body) ==
    [key |-> "key_id",
     sign |-> Hmac("key_secret", Message(now, method, endpoint, body)),
     timestamp |-> now,
     passphrase |-> "key_passphrase",
     content_type |-> "Application/JSON",
     sigId |-> n + 1,
     sleepsAtSign |-> slept]

\* json.dumps(body) of a dict: its items in order, as one string of tokens.
RECURSIVE JsonItems(_)
JsonItems(items) ==
    IF items = <<>> THEN <<>>
    ELSE <<items[1][1], ":", items[1][2]>>
         \o (IF Len(items) > 1 THEN <<",">> ELSE <<>>)
         \o JsonItems(Tail(items))

JsonDumps(body) == <<"{">> \o JsonItems(body) \o <<"}">>

\* requests.post(url, json=body): the library serializes body with json.dumps.
RequestsJsonBody(body) == JsonDumps(body)

\* ---------------------------------------------------------------- Normalization
OrderOnlyKeys == <<"fill_fees", "filled_size", "executed_value", "status", "settled">>

\* Lines 254-258 read trade_data[k] for each order-only key k in turn.
RECURSIVE CopyOrderOnly(_, _)
CopyOrderOnly(trade_data, keys) ==
    IF keys = <<>> THEN Ok(trade_data)
    ELSE IF keys[1] \notin DOMAIN trade_data THEN Raise("KeyError")
    ELSE CopyOrderOnly(trade_data @@ (keys[1] :> trade_data[keys[1]]), Tail(keys))

_trade_normalization(trade) ==
    IF ~({"created_at", "product_id", "side", "size", "price"} \subseteq DOMAIN trade)
    THEN Raise("KeyError")
    ELSE LET trade_data == [timestamp |-> trade["created_at"],
                            pair |-> trade["product_id"],
                            feed |-> ID,
                            side |-> trade["side"],
                            amount |-> trade["size"],
                            price |-> trade["price"]]
         IN IF "order_id" \in DOMAIN trade
            THEN Ok(("id" :> trade["order_id"]) @@ trade_data)
            ELSE IF "id" \notin DOMAIN trade \/ "type" \notin DOMAIN trade
            THEN Raise("KeyError")
            ELSE CopyOrderOnly(("id" :> trade["id"]) @@ ("type" :> trade["type"])
                                 @@ trade_data,
                               OrderOnlyKeys)

\* self._trade_normalization(*args): the method takes one positional argument.
CallTradeNormalization(args) ==
    IF Len(args) /= 1 THEN Raise("TypeError") ELSE _trade_normalization(args[1])

\* list(map(f, data)): the first element whose call raises ends the map.
\* extra holds the positional arguments passed before the element.
RECURSIVE MapNormalization(_, _)
MapNormalization(extra, data) ==
    IF data = <<>> THEN Ok(<<>>)
    ELSE LET head == CallTradeNormalization(Append(extra, data[1]))
         IN IF head.error /= "" THEN Raise(head.error)
            ELSE LET rest == MapNormalization(extra, Tail(data))
                 IN IF rest.error /= "" THEN Raise(rest.error)
                    ELSE Ok(<<head.value>> \o rest.value)

\* ---------------------------------------------------------------- Endpoint builders
\* 'status' in endpoint: a substring test.  No status value or product id
\* of the model contains "status", so it is a test for the token.
Contains(endpoint, word) == \E i \in 1..Len(endpoint) : endpoint[i] = word

get_fills_endpoint(symbol) ==
    IF symbol /= NoneStr
    THEN <<"/fills", "?", "product_id", "=", pair_std_to_exchange(symbol)>>
    ELSE <<"/fills">>

\* Lines 130-134: the loop over body['status'].
RECURSIVE OrdersStatusParams(_, _)
OrdersStatusParams(endpoint, statuses) ==
    IF statuses = <<>> THEN endpoint
    ELSE OrdersStatusParams(
             IF ~Contains(endpoint, "status")
             THEN endpoint \o <<"?", "status", "=", statuses[1]>>
             ELSE endpoint \o <<"&", "status", statuses[1]>>,
             Tail(statuses))

get_orders_endpoint(body) ==
    LET withStatus == IF "status" \in DOMAIN body
                      THEN OrdersStatusParams(<<"/orders">>, body["status"])
                      ELSE <<"/orders">>
    IN IF "product_id" \in DOMAIN body
       THEN LET product_id == pair_std_to_exchange(body["product_id"])
            IN IF Contains(withStatus, "status")
               THEN withStatus \o <<"?", "product_id", "=", product_id>>
               ELSE withStatus \o <<"&", "product_id", "=", product_id>>
       ELSE withStatus

get_order_endpoint(order_id) == <<"/orders", "/", order_id>>

delete_order_endpoint(order_id) ==
    IF order_id /= NoneStr THEN <<"/orders", "/", order_id>> ELSE <<"/orders">>

\* Variant: the signer is called without body=, so it signs the default ''.
PostOrderSignedBodyOmitted(body) == NoDict

\* The body _post_order hands to the signer.
PostOrderSignedBody(body) == JsonDumps(body)

\* Names local to _delete_order and to _get_fills.
DeleteOrderLocals == {"self", "order_id", "endpoint", "header"}
GetFillsLocals ==
    {"self", "symbol", "retry", "retry_wait", "start_date", "end_date",
     "endpoint", "header", "data", "data_in_range", "start_time", "end_time",
     "entry", "entry_time"}

\* ---------------------------------------------------------------- Fills filter
\* Lines 113-117: the loop over data, once both dates are given.
RECURSIVE FilterInRange(_, _, _)
FilterInRange(data, start_time, end_time) ==
    IF data = <<>> THEN Ok(<<>>)
    ELSE IF ~NameBound("datetime", GetFillsLocals) THEN Raise("NameError")
    ELSE LET entry_time == Strptime(data[1]["created_at"], IsoFrac)
         IN IF entry_time.error /= "" THEN Raise(entry_time.error)
            ELSE LET rest == FilterInRange(Tail(data), start_time, end_time)
                 IN IF rest.error /= "" THEN Raise(rest.error)
                    ELSE IF entry_time.value >= start_time /\ entry_time.value <= end_time
                    THEN Ok(<<data[1]>> \o rest.value)
                    ELSE Ok(rest.value)

\* _get_fills from line 106 on: what becomes of the fetched data.
get_fills_after(symbol, data, start_date, end_date) ==
    LET kept == IF data = <<>> THEN Ok(data)
                ELSE IF start_date /= None /\ end_date /= None
                THEN FilterInRange(data, start_date, end_date)
                ELSE Ok(data)
    IN IF kept.error /= "" THEN Raise(kept.error)
       ELSE MapNormalization(<<symbol>>, kept.value)

\* ---------------------------------------------------------------- Dispatcher
\* The names bound inside _make_request to the retry budget and the wait
\* of its caller: the parameters are method, endpoint, header and body;
\* retry is assigned in the body (lines 58, 67), so it is a local.
MakeRequestParams == {"self", "method", "endpoint", "header", "body"}

\* Variant: _make_request takes retry and retry_wait from its caller.
MakeRequestScopeForwarded(callerRetry, callerWait) ==
    [retry |-> callerRetry, retry_wait |-> callerWait]

MakeRequestScope(callerRetry, callerWait) ==
    [retry |-> IF "retry" \in MakeRequestParams THEN callerRetry ELSE Unbound,
     retry_wait |-> IF NameBound("retry_wait", MakeRequestParams)
                    THEN callerWait ELSE Unbound]

\* except TimeoutError / except requests.exceptions.ConnectionError.
Caught(kind) == kind \in {"TimeoutError", "ConnectionError"}

\* Lines 52-69: what an exception of requests.get/post/delete leads to.
OnTransportError(kind, r, w) ==
    IF ~Caught(kind)
    THEN [do |-> "raise", error |-> kind, retry |-> r, wait |-> 0]
    ELSE IF r = Unbound
    THEN [do |-> "raise", error |-> "UnboundLocalError", retry |-> r, wait |-> 0]
    ELSE IF r /= None /\ r = 0
    THEN [do |-> "raise", error |-> kind, retry |-> r, wait |-> 0]
    ELSE LET left == IF r /= None THEN r - 1 ELSE r
         IN IF w = Unbound
            THEN [do |-> "raise", error |-> "NameError", retry |-> left, wait |-> 0]
            ELSE [do |-> "retry", error |-> "", retry |-> left, wait |-> w]

\* requests' Response.raise_for_status(): HTTPError for 4xx and 5xx only.
RaiseForStatus(status) ==
    IF 400 <= status /\ status < 600 THEN "HTTPError" ELSE ""

\* Lines 76-94: what an HTTP response leads to.  Every branch for a status
\* other than 200 ends in resp.raise_for_status(); line 94 follows.
OnResponse(status, hasJson) ==
    IF status /= 200 /\ RaiseForStatus(status) /= ""
    THEN [do |-> "raise", error |-> RaiseForStatus(status)]
    ELSE IF ~hasJson
    THEN [do |-> "raise", error |-> "ValueError"]
    ELSE [do |-> "return", error |-> ""]

\* ---------------------------------------------------------------- steps
Api == IF sandbox THEN sandbox_api ELSE api

\* The symbol _get_fills holds after line 100.
GetFillsSymbol(symbol) ==
    IF symbol /= NoneStr THEN pair_std_to_exchange(symbol) ELSE symbol

\* header = self._generate_signature(...) at time now, then the entry
\* into self._make_request(method, endpoint, header, body).
Enter(now, method, endpoint, signedBody, body, callerRetry, callerWait) ==
    /\ req' = [method |-> method, endpoint |-> endpoint,
               header |-> _generate_signature(now, sigCount, Len(sleepLog),
                                             endpoint, method, signedBody),
               body |-> body]
    /\ sigCount' = sigCount + 1
    /\ retry' = MakeRequestScope(callerRetry, callerWait).retry
    /\ retry_wait' = MakeRequestScope(callerRetry, callerWait).retry_wait
    /\ pc' = "request"

Finish(kind, e, v) ==
    /\ pc' = "done"
    /\ outcome' = kind
    /\ error' = e
    /\ result' = v

FinishWith(r) ==
    IF r.error /= "" THEN Finish("raised", r.error, NoDict)
    ELSE Finish("returned", "", r.value)

\* One HTTP attempt as it leaves the client, with the exchange's reply and
\* what _make_request did with the reply.
Attempt(reply, disposition) ==
    [api |-> Api,
     method |-> req.method,
     endpoint |-> req.endpoint,
     body |-> IF req.method = "POST" THEN RequestsJsonBody(req.body) ELSE NoDict,
     header |-> req.header,
     sentAt |-> clock,
     sleepsBefore |-> Len(sleepLog),
     reply |-> reply,
     disposition |-> disposition]

\* Variant: a failed normalization is skipped instead of raised.
AfterPostOrderSwallowing(soFar, norm) ==
    IF norm.error /= "" THEN [error |-> "", responses |-> soFar]
    ELSE [error |-> "", responses |-> Append(soFar, norm.value)]

\* execute_trades, lines 215-217: the normalized response is appended.
AfterPostOrder(soFar, norm) ==
    IF norm.error /= "" THEN [error |-> norm.error, responses |-> soFar]
    ELSE [error |-> "", responses |-> Append(soFar, norm.value)]

\* ---------------------------------------------------------------- public operations
\* fills(symbol, start, end, retry, retry_wait) -> _get_fills, up to the request.
Fills(symbol, start, end, r, w) ==
    /\ pc = "idle"
    /\ call' = [NoCall EXCEPT !.op = "fills", !.symbol = symbol, !.start = start,
                              !.end = end, !.retry = r, !.retry_wait = w]
    /\ Enter(clock, "GET", get_fills_endpoint(symbol), NoDict, NoDict, r, w)
    /\ UNCHANGED <<sandbox, clock, wire, sleepLog, idx, responses, outcome,
                   error, result>>

\* get_orders(body) -> _get_orders, up to the request.
GetOrders(body) ==
    /\ pc = "idle"
    /\ call' = [NoCall EXCEPT !.op = "get_orders", !.body = body]
    /\ Enter(clock, "GET", get_orders_endpoint(body), NoDict, NoDict, Unbound, Unbound)
    /\ UNCHANGED <<sandbox, clock, wire, sleepLog, idx, responses, outcome,
                   error, result>>

\* get_order(order_id) -> _get_order, up to the request.
GetOrder(order_id) ==
    /\ pc = "idle"
    /\ call' = [NoCall EXCEPT !.op = "get_order", !.order_id = order_id]
    /\ Enter(clock, "GET", get_order_endpoint(order_id), NoDict, NoDict, Unbound, Unbound)
    /\ UNCHANGED <<sandbox, clock, wire, sleepLog, idx, responses, outcome,
                   error, result>>

\* execute_trades(trades_to_make), up to the first request:
\* _post_order(trade, retry=None, retry_wait=0).
ExecuteTrades(trades) ==
    /\ pc = "idle"
    /\ call' = [NoCall EXCEPT !.op = "execute_trades", !.trades = trades]
    /\ responses' = <<>>
    /\ IF trades = <<>>
       THEN /\ Finish("returned", "", <<>>)
            /\ idx' = 0
            /\ UNCHANGED <<req, sigCount, retry, retry_wait>>
       ELSE /\ Enter(clock, "POST", <<"/orders">>, PostOrderSignedBody(trades[1]),
                     trades[1], None, 0)
            /\ idx' = 1
            /\ UNCHANGED <<outcome, error, result>>
    /\ UNCHANGED <<sandbox, clock, wire, sleepLog>>

\* cancel_orders(order_id) -> _delete_order: line 177 reads body, line 178
\* reads headers.
CancelOrders(order_id) ==
    /\ pc = "idle"
    /\ call' = [NoCall EXCEPT !.op = "cancel_orders", !.order_id = order_id]
    /\ IF ~NameBound("body", DeleteOrderLocals) \/ ~NameBound("headers", DeleteOrderLocals)
       THEN /\ Finish("raised", "NameError", NoDict)
            /\ UNCHANGED <<req, sigCount, retry, retry_wait>>
       ELSE /\ Enter(clock, "DELETE", delete_order_endpoint(order_id), NoDict, NoDict,
                     Unbound, Unbound)
            /\ UNCHANGED <<outcome, error, result>>
    /\ UNCHANGED <<sandbox, clock, wire, sleepLog, idx, responses>>

\* ---------------------------------------------------------------- _make_request
\* One pass of the loop whose requests call raises: lines 45-69.
TransportFailure(kind, d) ==
    /\ pc = "request"
    /\ Len(wire) < MaxAttempts
    /\ LET h == OnTransportError(kind, retry, retry_wait)
           reply == [kind |-> kind, status |-> 0, hasJson |-> FALSE, json |-> NoDict]
       IN /\ wire' = Append(wire, Attempt(reply, [do |-> h.do, error |-> h.error]))
          /\ retry' = h.retry
          /\ clock + d + h.wait <= MaxClock
          /\ clock' = clock + d + h.wait
          /\ IF h.do = "raise"
             THEN /\ Finish("raised", h.error, NoDict)
                  /\ UNCHANGED sleepLog
             ELSE /\ sleepLog' = Append(sleepLog, h.wait)
                  /\ UNCHANGED <<pc, outcome, error, result>>
    /\ UNCHANGED <<sandbox, call, req, retry_wait, sigCount, idx, responses>>

\* What the caller of _make_request does with the data it returns, at time now.
Continue(data, now) ==
    CASE call.op = "fills" ->
           /\ FinishWith(get_fills_after(GetFillsSymbol(call.symbol), data,
                                         call.start, call.end))
           /\ UNCHANGED <<req, retry, retry_wait, sigCount, idx, responses>>
      [] call.op = "get_orders" ->
           /\ FinishWith(MapNormalization(<<>>, data))
           /\ UNCHANGED <<req, retry, retry_wait, sigCount, idx, responses>>
      [] call.op = "get_order" ->
           /\ FinishWith(CallTradeNormalization(<<data>>))
           /\ UNCHANGED <<req, retry, retry_wait, sigCount, idx, responses>>
      [] call.op = "execute_trades" ->
           LET step == AfterPostOrder(responses, CallTradeNormalization(<<data>>))
           IN /\ responses' = step.responses
              /\ IF step.error /= ""
                 THEN /\ Finish("raised", step.error, NoDict)
                      /\ UNCHANGED <<req, retry, retry_wait, sigCount, idx>>
                 ELSE IF idx < Len(call.trades)
                 THEN /\ Enter(now, "POST", <<"/orders">>,
                               PostOrderSignedBody(call.trades[idx + 1]),
                               call.trades[idx + 1], None, 0)
                      /\ idx' = idx + 1
                      /\ UNCHANGED <<outcome, error, result>>
                 ELSE /\ Finish("returned", "", step.responses)
                      /\ UNCHANGED <<req, retry, retry_wait, sigCount, idx>>
      [] OTHER ->
           /\ Finish("returned", "", None)
           /\ UNCHANGED <<req, retry, retry_wait, sigCount, idx, responses>>

\* The bodies a reply of a status may carry: an error status is raised on
\* before its body is parsed.
ReplyBodies(op, status) ==
    IF RaiseForStatus(status) /= "" THEN {[hasJson |-> FALSE, json |-> NoDict]}
    ELSE {[hasJson |-> FALSE, json |-> NoDict]}
         \cup {[hasJson |-> TRUE, json |-> j] : j \in Payloads(op)}

\* One pass of the loop whose requests call returns a response: lines
\* 45-51 and 76-94, then the caller's code after _make_request.
HttpReply(status, b, d) ==
    /\ pc = "request"
    /\ Len(wire) < MaxAttempts
    /\ clock + d <= MaxClock
    /\ clock' = clock + d
    /\ LET h == OnResponse(status, b.hasJson)
           reply == [kind |-> "http", status |-> status, hasJson |-> b.hasJson,
                     json |-> b.json]
       IN /\ wire' = Append(wire, Attempt(reply, h))
          /\ IF h.do = "raise"
             THEN /\ Finish("raised", h.error, NoDict)
                  /\ UNCHANGED <<req, retry, retry_wait, sigCount, idx, responses>>
             ELSE Continue(b.json, clock + d)
    /\ UNCHANGED <<sandbox, call, sleepLog>>

\* The caller has the outcome; the client is ready for the next operation.
Return ==
    /\ pc = "done"
    /\ pc' = "idle"
    /\ call' = NoCall
    /\ req' = NoReq
    /\ retry' = Unbound
    /\ retry_wait' = Unbound
    /\ wire' = <<>>
    /\ sleepLog' = <<>>
    /\ sigCount' = 0
    /\ idx' = 0
    /\ responses' = <<>>
    /\ outcome' = "running"
    /\ error' = ""
    /\ result' = NoDict
    /\ UNCHANGED <<sandbox, clock>>

\* Time passes between operations.
Tick ==
    /\ pc = "idle"
    /\ clock < MaxClock
    /\ clock' = clock + 1
    /\ UNCHANGED <<sandbox, pc, call, req, retry, retry_wait, wire, sleepLog,
                   sigCount, idx, responses, outcome, error, result>>

Optional(S) == {None} \cup S

Next ==
    \/ \E symbol \in {NoneStr} \cup Symbols, start \in Optional(Times),
          end \in Optional(Times), r \in Optional(0..MaxRetry), w \in 0..MaxWait :
          Fills(symbol, start, end, r, w)
    \/ \E body \in OrderBodies : GetOrders(body)
    \/ \E order_id \in OrderIds : GetOrder(order_id)
    \/ \E trades \in SeqsUpTo(Trades, MaxTrades) : ExecuteTrades(trades)
    \/ \E order_id \in {NoneStr} \cup OrderIds : CancelOrders(order_id)
    \/ \E kind \in TransportErrors, d \in Latencies : TransportFailure(kind, d)
    \/ \E status \in StatusCodes, d \in Latencies :
          \E b \in ReplyBodies(call.op, status) : HttpReply(status, b, d)
    \/ Return
    \/ Tick

Spec == Init /\ [][Next]_vars

\* ================================================================ claims
Attempts == 1..Len(wire)
LastAttempt == wire[Len(wire)]
Answered200 ==
    /\ wire /= <<>>
    /\ LastAttempt.reply.kind = "http"
    /\ LastAttempt.reply.status = 200
    /\ LastAttempt.reply.hasJson

FillKeys == {"id", "pair", "price", "amount", "side", "timestamp", "feed"}

\* The normalized record the specification describes for a raw record.
ExpectedRecord(raw) ==
    LET common == [timestamp |-> raw["created_at"], pair |-> raw["product_id"],
                   feed |-> ID, side |-> raw["side"], amount |-> raw["size"],
                   price |-> raw["price"]]
    IN IF "order_id" \in DOMAIN raw
       THEN ("id" :> raw["order_id"]) @@ common
       ELSE [k \in {"id", "type", "fill_fees", "filled_size", "executed_value",
                    "status", "settled"} |-> raw[k]] @@ common

ExpectedRecords(data) == [k \in 1..Len(data) |-> ExpectedRecord(data[k])]

InRange(raw, start, end) ==
    start <= raw["created_at"].date /\ raw["created_at"].date <= end

\* C1: when every attempt of fills(retry=N, retry_wait=W) fails with a
\* transport error, _make_request makes exactly N+1 attempts, sleeps W
\* between consecutive attempts, and then raises the transport error.
C1_ExactlyNPlusOneAttempts ==
    (/\ call.op = "fills"
     /\ call.retry /= None
     /\ wire /= <<>>
     /\ \A i \in Attempts : wire[i].reply.kind \in TransportErrors)
    => /\ Len(wire) <= call.retry + 1
       /\ pc = "done" =>
            /\ Len(wire) = call.retry + 1
            /\ outcome = "raised"
            /\ error = LastAttempt.reply.kind
            /\ sleepLog = [i \in 1..call.retry |-> call.retry_wait]

\* C2: every response whose status is not 200 is raised as a fatal HTTP
\* error on that response, with no further attempt and no value returned;
\* _make_request returns parsed JSON only for status 200.
C2_Non200IsFatal ==
    \A i \in Attempts :
        (wire[i].reply.kind = "http" /\ wire[i].reply.status /= 200)
        => /\ wire[i].disposition = [do |-> "raise", error |-> "HTTPError"]
           /\ i = Len(wire)
           /\ pc = "done" /\ outcome = "raised"

\* C3: fills with both start and end returns exactly the normalization of
\* the fetched records with start <= created_at <= end, in fetched order;
\* with an empty list or no range every fetched record is passed through.
C3_FillsDateFilter ==
    (pc = "done" /\ call.op = "fills" /\ Answered200)
    => /\ outcome = "returned"
       /\ LET data == LastAttempt.reply.json
              kept == IF data /= <<>> /\ call.start /= None /\ call.end /= None
                      THEN SelectSeq(data, LAMBDA raw : InRange(raw, call.start, call.end))
                      ELSE data
          IN result = ExpectedRecords(kept)

\* C4: a 200 answer with a list of fill-shaped records makes fills() return
\* one normalized record per fetched fill, with id, pair, price, amount,
\* side, timestamp and feed and none of the order-only fields.
C4_FillsReturnsFillShape ==
    (pc = "done" /\ call.op = "fills" /\ Answered200)
    => /\ error = ""
       /\ Len(result) = Len(LastAttempt.reply.json)
       /\ \A k \in 1..Len(result) : DOMAIN result[k] = FillKeys

\* C5: _trade_normalization never fails on a well-formed raw record: one
\* with order_id yields the fill shape, one with id and type (as answered
\* to get_order and get_orders) yields the order shape, its order-only
\* fields copied from the raw record.
C5_NormalizationOfBothShapes ==
    (pc = "done" /\ call.op \in {"get_order", "get_orders"} /\ Answered200)
    => /\ outcome = "returned"
       /\ IF call.op = "get_order"
          THEN result = ExpectedRecord(LastAttempt.reply.json)
          ELSE result = ExpectedRecords(LastAttempt.reply.json)

\* The endpoint the specification describes for an order-listing body:
\* /orders, then status=v per status value, then product_id, the first
\* parameter after '?' and every later one after '&'.
RECURSIVE JoinParams(_, _)
JoinParams(endpoint, params) ==
    IF params = <<>> THEN endpoint
    ELSE JoinParams(endpoint \o <<IF Contains(endpoint, "?") THEN "&" ELSE "?",
                                   params[1][1], "=", params[1][2]>>,
                    Tail(params))

OrdersParams(body) ==
    (IF "status" \in DOMAIN body
     THEN [k \in 1..Len(body["status"]) |-> <<"status", body["status"][k]>>]
     ELSE <<>>)
    \o (IF "product_id" \in DOMAIN body
        THEN << <<"product_id", pair_std_to_exchange(body["product_id"])>> >>
        ELSE <<>>)

\* C6: the endpoint built by _get_orders is /orders followed by one
\* key=value parameter per status value and then product_id, the first
\* prefixed with '?' and every later one with '&'.
C6_OrdersEndpointWellFormed ==
    call.op = "get_orders"
    => req.endpoint = JoinParams(<<"/orders">>, OrdersParams(call.body))

\* C7: for every order placed, the signature in the headers is computed
\* over the method, endpoint and body that are transmitted, and that body
\* is the serialization of a trade the caller supplied.
C7_SignedIsSent ==
    \A i \in Attempts :
        wire[i].method = "POST"
        => /\ wire[i].header.sign =
                Hmac("key_secret", Message(wire[i].header.timestamp, wire[i].method,
                                           wire[i].endpoint, wire[i].body))
           /\ \E k \in 1..Len(call.trades) : wire[i].body = JsonDumps(call.trades[k])

C7_Witness ==
    /\ call.op = "execute_trades"
    /\ Len(wire) = 2
    /\ wire[1].body /= wire[2].body

C9_CancelIssuesOneDelete ==
    (pc = "done" /\ call.op = "cancel_orders")
    => /\ Len(wire) = 1
       /\ wire[1].method = "DELETE"
       /\ wire[1].endpoint = delete_order_endpoint(call.order_id)
       /\ wire[1].header.sign =
            Hmac("key_secret", Message(wire[1].header.timestamp, "DELETE",
                                       wire[1].endpoint, NoDict))
       /\ wire[1].reply.status = 200 => outcome = "returned"

\* An attempt of execute_trades whose answer was returned and normalized.
Submitted(i) ==
    /\ wire[i].disposition.do = "return"
    /\ _trade_normalization(wire[i].reply.json).error = ""

\* C10: execute_trades submits one POST /orders per trade in input order;
\* it returns a list only when every submission and normalization
\* succeeded, the k-th element being the normalized k-th response; when
\* the k-th fails the error reaches the caller, nothing is returned, no
\* later trade is submitted and the earlier ones have been transmitted.
C10_ExecuteTradesAllOrNothing ==
    call.op = "execute_trades"
    => /\ Len(wire) <= Len(call.trades)
       /\ \A i \in Attempts :
            /\ wire[i].method = "POST"
            /\ wire[i].endpoint = <<"/orders">>
            /\ wire[i].body = JsonDumps(call.trades[i])
            /\ i < Len(wire) => Submitted(i)
       /\ pc = "done" =>
            \/ /\ outcome = "returned"
               /\ error = ""
               /\ Len(wire) = Len(call.trades)
               /\ Len(result) = Len(call.trades)
               /\ \A k \in Attempts :
                    /\ Submitted(k)
                    /\ result[k] = _trade_normalization(wire[k].reply.json).value
            \/ /\ outcome = "raised"
               /\ error /= ""
               /\ result = NoDict
               /\ wire /= <<>>
               /\ ~Submitted(Len(wire))

C10_Witness ==
    /\ pc = "done"
    /\ call.op = "execute_trades"
    /\ outcome = "raised"
    /\ Len(call.trades) = 2
    /\ Len(wire) = 2
    /\ wire[1].body /= wire[2].body
====
